---- MODULE Spec2Model ----
(***************************************************************************)
(* GeoPortal backend (src/backend/app.py): the layer cache, refresh_all,   *)
(* the sample fallback, the watchdog handler with its debounce timers, and *)
(* the HTTP read handlers, as a state machine of interleaved contexts.     *)
(*                                                                         *)
(* Strings that the program takes apart are modelled by their parts: a     *)
(* path is a record [dir, stem, ext, is_directory] (Path(p).stem is the    *)
(* stem field, p.endswith(".shp") tests the ext field), and a layer name   *)
(* handed to detect_type is a sequence of characters.  Time is counted in  *)
(* ticks; a timer holds the ticks it still has to wait.  loaded_at,        *)
(* bounds and fields of a record are left out (they are produced together  *)
(* with geojson and count from the same file content).                     *)
(***************************************************************************)
EXTENDS Integers, Sequences, FiniteSets, TLC

\* ---------------------------------------------------------------- bounds
\* a run of the program is given one of three budgets of outside activity:
\* many filesystem changes and few POST /api/refresh requests, or the
\* reverse, or few of both and an interrupt of the server
WatchFsOps == 2
WatchPosts == 1
RaceFsOps == 1
RacePosts == 2
StopFsOps == 1
StopPosts == 1
LiveFsOps == 1
LivePosts == 2
\* pieces concatenated into a layer name given to detect_type
MaxPieces == 2

\* -------------------------------------------------------- program tables
\* _debounce(path, delay=1.2): the delay, in ticks of 0.6 s
DebounceDelay == 2

COLORS ==
    << "#4FC3F7", "#81C784", "#FFB74D", "#E57373", "#CE93D8",
       "#4DB6AC", "#F06292", "#AED581", "#FFD54F", "#26C6DA",
       "#7986CB", "#A1887F", "#90A4AE", "#FF8A65", "#4DD0E1" >>

\* the keyword table, in declaration order (a dict keeps insertion order)
NAME_TYPE ==
    <<
        <<<<"a","d","m","i","n">>, "polygon">>,
        <<<<"b","o","u","n","d","a","r","y">>, "polygon">>,
        <<<<"b","o","u","n","d","a","r","i","e","s">>, "polygon">>,
        <<<<"b","u","i","l","d","i","n","g">>, "polygon">>,
        <<<<"b","u","i","l","d","i","n","g","s">>, "polygon">>,
        <<<<"l","a","n","d","u","s","e">>, "polygon">>,
        <<<<"l","a","n","d","_","u","s","e">>, "polygon">>,
        <<<<"p","a","r","c","e","l">>, "polygon">>,
        <<<<"z","o","n","e">>, "polygon">>,
        <<<<"b","l","o","c","k">>, "polygon">>,
        <<<<"w","a","t","e","r">>, "polyline">>,
        <<<<"w","a","t","e","r","_","s","u","p","p","l","y">>, "polyline">>,
        <<<<"s","e","w","e","r","a","g","e">>, "polyline">>,
        <<<<"s","e","w","e","r">>, "polyline">>,
        <<<<"r","o","a","d">>, "polyline">>,
        <<<<"r","o","a","d","s">>, "polyline">>,
        <<<<"s","t","r","e","e","t">>, "polyline">>,
        <<<<"s","t","r","e","e","t","s">>, "polyline">>,
        <<<<"p","i","p","e">>, "polyline">>,
        <<<<"p","i","p","e","l","i","n","e">>, "polyline">>,
        <<<<"n","e","t","w","o","r","k">>, "polyline">>,
        <<<<"d","r","a","i","n">>, "polyline">>,
        <<<<"c","h","a","m","b","e","r">>, "point">>,
        <<<<"c","h","a","m","b","e","r","s">>, "point">>,
        <<<<"m","a","n","h","o","l","e">>, "point">>,
        <<<<"m","a","n","h","o","l","e","s">>, "point">>,
        <<<<"u","t","i","l","i","t","y">>, "point">>,
        <<<<"u","t","i","l","i","t","i","e","s">>, "point">>,
        <<<<"h","y","d","r","a","n","t">>, "point">>,
        <<<<"v","a","l","v","e">>, "point">>,
        <<<<"p","u","m","p">>, "point">>,
        <<<<"a","s","s","e","t">>, "point">>,
        <<<<"a","s","s","e","t","s">>, "point">>,
        <<<<"w","e","l","l">>, "point">>,
        <<<<"t","o","w","e","r">>, "point">>
    >>

GEOM_MAP(g) ==
    CASE g \in {"Point", "MultiPoint"} -> "point"
      [] g \in {"LineString", "MultiLineString"} -> "polyline"
      [] g \in {"Polygon", "MultiPolygon"} -> "polygon"
      [] OTHER -> "polygon"

UPPER ==
    << "A","B","C","D","E","F","G","H","I","J","K","L","M",
       "N","O","P","Q","R","S","T","U","V","W","X","Y","Z" >>

LOWER ==
    << "a","b","c","d","e","f","g","h","i","j","k","l","m",
       "n","o","p","q","r","s","t","u","v","w","x","y","z" >>

\* str.lower(), character by character
LowerChar(c) ==
    IF \E i \in 1..Len(UPPER) : UPPER[i] = c
    THEN LOWER[CHOOSE i \in 1..Len(UPPER) : UPPER[i] = c]
    ELSE c

Lower(n) == [i \in 1..Len(n) |-> LowerChar(n[i])]

\* k in n, for strings: k occurs as a contiguous substring of n
Contains(k, n) ==
    \E i \in 0..(Len(n) - Len(k)) : SubSeq(n, i + 1, i + Len(k)) = k

\* the for loop of detect_type from entry i on: the kind of the first
\* keyword found in n, "" when the loop ends without a return
RECURSIVE KeywordScan(_, _)
KeywordScan(n, i) ==
    IF i > Len(NAME_TYPE) THEN ""
    ELSE IF Contains(NAME_TYPE[i][1], n) THEN NAME_TYPE[i][2]
    ELSE KeywordScan(n, i + 1)

\* a GeoDataFrame as detect_type sees it: absent (None), or the geometry
\* types of its features in row order
NoGdf == [isNone |-> TRUE, geom_type |-> << >>]

Gdf(geoms) == [isNone |-> FALSE, geom_type |-> geoms]

\* the mutated detect_type: the geometry of the first feature is looked at
\* before the keyword table
detect_type_geometry_first(name, gdf) ==
    IF ~gdf.isNone /\ Len(gdf.geom_type) > 0
    THEN GEOM_MAP(gdf.geom_type[1])
    ELSE LET k == KeywordScan(Lower(name), 1)
         IN  IF k # "" THEN k ELSE "polygon"

detect_type(name, gdf) ==
    LET k == KeywordScan(Lower(name), 1)
    IN  IF k # "" THEN k
        ELSE IF ~gdf.isNone /\ Len(gdf.geom_type) > 0
             THEN GEOM_MAP(gdf.geom_type[1])
             ELSE "polygon"

make_style(ltype, color) ==
    [ shape     |-> ltype,
      color     |-> color,
      fillColor |-> IF ltype \in {"polygon", "point"} THEN color ELSE "" ]

\* ------------------------------------------------------------ filesystem
P_top  == [dir |-> "",    stem |-> "roads", ext |-> ".shp", is_directory |-> FALSE]

P_sub  == [dir |-> "sub", stem |-> "roads", ext |-> ".shp", is_directory |-> FALSE]

P_plot == [dir |-> "sub", stem |-> "plot",  ext |-> ".shp", is_directory |-> FALSE]

P_txt  == [dir |-> "",    stem |-> "roads", ext |-> ".txt", is_directory |-> FALSE]

D_sub  == [dir |-> "",    stem |-> "sub",   ext |-> "",     is_directory |-> TRUE]

\* a directory named like a source file
D_shp  == [dir |-> "sub", stem |-> "plot", ext |-> ".shp", is_directory |-> TRUE]

\* file_path=None of a sample record
NoPath == [dir |-> "", stem |-> "", ext |-> "", is_directory |-> FALSE]

ShpPaths == {P_top, P_sub, P_plot}

Files == ShpPaths \cup {P_txt}

\* what a notification that changes no source file is about
OtherPaths == {P_txt, D_sub, D_shp}

\* what a file holds: whether it parses, and the geometry types of its rows
Absent     == [exists |-> FALSE, ok |-> FALSE, geoms |-> << >>]

PointsFile == [exists |-> TRUE, ok |-> TRUE, geoms |-> <<"Point", "Point", "Point">>]

LinesFile  == [exists |-> TRUE, ok |-> TRUE, geoms |-> <<"LineString">>]

Corrupt    == [exists |-> TRUE, ok |-> FALSE, geoms |-> << >>]

\* the contents each file is given when it is written
ContentsOf(p) ==
    CASE p.stem = "plot" -> {PointsFile, LinesFile}
      [] p.dir = "sub"   -> {LinesFile}
      [] OTHER           -> {PointsFile, Corrupt}

Dir(top, sub, plot) ==
    [p \in Files |-> CASE p = P_top  -> top
                       [] p = P_sub  -> sub
                       [] p = P_plot -> plot
                       [] OTHER      -> LinesFile]

\* the data directories the program is started on
InitDirs ==
    { Dir(Absent, Absent, Absent),
      Dir(PointsFile, Absent, Absent),
      Dir(Corrupt, Absent, Absent),
      Dir(Absent, LinesFile, PointsFile),
      Dir(PointsFile, LinesFile, Absent) }

\* Path(path).stem and the characters of a stem
Stem(path) == path.stem

NameChars(s) ==
    CASE s = "roads" -> <<"r","o","a","d","s">>
      [] s = "plot"  -> <<"p","l","o","t">>
      [] OTHER       -> << >>

\* path.endswith(".shp"), and the *.shp of both glob patterns
EndsWithShp(path) == path.ext = ".shp"

\* the order in which a directory scan yields the entries of a directory
TopOrder == <<P_top, P_txt>>

SubOrder == <<P_plot, P_sub>>

IsShpIn(f, p) == f[p].exists /\ EndsWithShp(p)

\* glob(DATA_DIR/**/*.shp, recursive=True): ** also matches no directory,
\* so the top-level files come first, then those of the subdirectories
GlobRecursive(f) == SelectSeq(TopOrder \o SubOrder, LAMBDA p : IsShpIn(f, p))

\* glob(DATA_DIR/*.shp)
GlobTop(f) == SelectSeq(TopOrder, LAMBDA p : IsShpIn(f, p))

\* -------------------------------------------------------------- records
None == [none |-> TRUE]

\* the contents a file of the model may have
FileContents == {Absent, PointsFile, LinesFile, Corrupt}

\* detect_type(name, gdf) for every file name and contents, worked out once
DetectedType ==
    [p \in Files, c \in FileContents |->
        detect_type(NameChars(Stem(p)), Gdf(c.geoms))]

\* load_shp(path): the record without its style, or None
load_shp(f, path) ==
    IF f[path].exists /\ f[path].ok
    THEN [ name      |-> Stem(path),
           type      |-> DetectedType[path, f[path]],
           geojson   |-> f[path].geoms,
           count     |-> Len(f[path].geoms),
           file_path |-> path ]
    ELSE None

\* d["style"] = make_style(d["type"], color); gen is history: the run of
\* refresh_all that installed the record (0: the watcher)
Styled(d, color, gen) ==
    [ name      |-> d.name,
      type      |-> d.type,
      geojson   |-> d.geojson,
      count     |-> d.count,
      file_path |-> d.file_path,
      style     |-> make_style(d.type, color),
      gen       |-> gen ]

\* the list raw of _load_samples: name, type, color, number of features
raw ==
    << [name |-> "administrative_boundaries", type |-> "polygon",  color |-> "#4FC3F7", features |-> 3],
       [name |-> "buildings",                 type |-> "polygon",  color |-> "#FFB74D", features |-> 5],
       [name |-> "land_use",                  type |-> "polygon",  color |-> "#81C784", features |-> 4],
       [name |-> "road_network",              type |-> "polyline", color |-> "#90A4AE", features |-> 5],
       [name |-> "water_supply",              type |-> "polyline", color |-> "#4DD0E1", features |-> 4],
       [name |-> "sewerage_network",          type |-> "polyline", color |-> "#A1887F", features |-> 3],
       [name |-> "chambers",                  type |-> "point",    color |-> "#CE93D8", features |-> 6],
       [name |-> "utilities",                 type |-> "point",    color |-> "#F06292", features |-> 8] >>

\* to_geojson(d): one feature per entry of d["features"]
to_geojson(d) ==
    LET g == IF d.type = "polygon" THEN "Polygon"
             ELSE IF d.type = "polyline" THEN "LineString" ELSE "Point"
    IN  [k \in 1..d.features |-> g]

SampleRecord(d, gen) ==
    [ name      |-> d.name,
      type      |-> d.type,
      geojson   |-> to_geojson(d),
      count     |-> d.features,
      file_path |-> NoPath,
      style     |-> make_style(d.type, d.color),
      gen       |-> gen ]

\* ------------------------------------------------------------ dictionary
EmptyDict == << >>

Put(c, k, v) == [n \in DOMAIN c \cup {k} |-> IF n = k THEN v ELSE c[n]]

Pop(c, k) == [n \in DOMAIN c \ {k} |-> c[n]]

Size(c) == Cardinality(DOMAIN c)

ColorAt(i) == COLORS[(i % Len(COLORS)) + 1]

\* ----------------------------------------------------------------- state
VARIABLES
    fs,            \* the data directory: file -> content
    fsLeft,        \* filesystem changes and notifications the run may still see
    postsLeft,     \* POST /api/refresh requests the run may still see
    stopsLeft,     \* interrupts of the server the run may still see
    seq,           \* the run takes the operations one after another
    started,       \* startup() has started the observer; requests are served
    stopped,       \* app.run has returned: no request is accepted any more
    layer_cache,   \* the dict layer_cache: name -> record
    cache_lock,    \* "free", or the context inside a with cache_lock block
    rf,            \* the contexts that run refresh_all: startup and POST /api/refresh
    rd,            \* the context of a GET request
    evq,           \* the observer's queue of events not yet dispatched
    Timer,         \* the threading.Timer objects that wait or run, and those
                   \* SHPHandler._timers still holds (field cur), oldest first
    genCtr,        \* history: runs of refresh_all started
    ref,           \* history: the reference map the mutations were applied to
    last,          \* history: the result of the refreshes since the directory changed
    burst,         \* history: the events of the path, while each came within the delay
    reloads,       \* history: runs of _reload for the path while that holds
    dt             \* detect_type applied to one input

vars ==
    << fs, fsLeft, postsLeft, stopsLeft, seq, started, stopped, layer_cache,
       cache_lock, rf, rd, evq, Timer, genCtr, ref, last, burst, reloads, dt >>

Refreshers == {"main", "http1", "http2"}

Http == Refreshers \ {"main"}

\* names asked of GET /api/layers/<name>
GetNames == {"roads", "buildings"}

RfIdle ==
    [pc |-> "idle", shps |-> << >>, i |-> 0, gen |-> 0,
     sawEmpty |-> FALSE, any |-> FALSE, n |-> 0,
     held |-> 0, committed |-> 0, mine |-> 0]

RdIdle ==
    [pc |-> "idle", op |-> "", name |-> "", snap |-> EmptyDict,
     layer |-> None, status |-> 0, n |-> 0, present |-> FALSE, committed |-> 0]

NoLast == [n |-> 0, map |-> EmptyDict, before |-> FALSE]

DtIdle == [name |-> << >>, gdf |-> NoGdf, out |-> ""]

Styles(c) == [n \in DOMAIN c |-> c[n].style]

\* the summary list_layers returns for a record
Summary(v) == [name |-> v.name, type |-> v.type, count |-> v.count, style |-> v.style]

Listing(c) == {Summary(c[n]) : n \in DOMAIN c}

\* the cache _load_samples builds from an empty one
RECURSIVE SamplesUpTo(_, _)
SamplesUpTo(k, gen) ==
    IF k = 0 THEN EmptyDict
    ELSE Put(SamplesUpTo(k - 1, gen), raw[k].name, SampleRecord(raw[k], gen))

SampleNames == {raw[k].name : k \in 1..Len(raw)}

\* the reference replaceAll of a full refresh on directory f: the records
\* loaded from the enumeration in order, or the samples when there are none
RECURSIVE LoadedUpTo(_, _, _)
LoadedUpTo(f, shps, k) ==
    IF k = 0 THEN EmptyDict
    ELSE LET prev == LoadedUpTo(f, shps, k - 1)
             d    == load_shp(f, shps[k])
         IN  IF d = None THEN prev
             ELSE Put(prev, d.name, Styled(d, ColorAt(k - 1), 0))

RefReplaceAll(f) ==
    LET shps   == GlobRecursive(f) \o GlobTop(f)
        loaded == LoadedUpTo(f, shps, Len(shps))
    IN  IF DOMAIN loaded = {} THEN SamplesUpTo(Len(raw), 0) ELSE loaded

\* the budgets of outside activity
Profiles ==
    { <<WatchFsOps, WatchPosts, 0>>, <<RaceFsOps, RacePosts, 0>>, <<StopFsOps, StopPosts, 1>> }

RestInit ==
    /\ started = FALSE
    /\ stopped = FALSE
    /\ layer_cache = EmptyDict
    /\ cache_lock = "free"
    /\ rf = [r \in Refreshers |->
               IF r = "main" THEN [RfIdle EXCEPT !.pc = "glob", !.gen = 1] ELSE RfIdle]
    /\ rd = RdIdle
    /\ evq = << >>
    /\ Timer = << >>
    /\ genCtr = 1
    /\ ref = EmptyDict
    /\ last = NoLast
    /\ burst = [p \in ShpPaths |-> 0]
    /\ reloads = [p \in ShpPaths |-> 0]

\* the program as startup() begins, on one of the data directories
Start ==
    /\ fs \in InitDirs
    /\ \E pr \in Profiles : fsLeft = pr[1] /\ postsLeft = pr[2] /\ stopsLeft = pr[3]
    /\ RestInit
    /\ dt = DtIdle

\* the contexts interleave step by step
Init == Start /\ seq = FALSE

\* one context at a time
SeqInit == Start /\ seq = TRUE

\* a response is computed and about to be sent: that touches nothing shared,
\* so it is taken before any other step
Responding == rd.pc = "got" \/ \E r \in Refreshers : rf[r].pc = "resp"

\* a context is between two of its steps
Busy ==
    \/ \E r \in Refreshers : rf[r].pc \notin {"idle", "serving"}
    \/ rd.pc # "idle"
    \/ \E t \in 1..Len(Timer) : Timer[t].st = "loaded"

\* a context that has begun may take its next step
MayGo == ~Responding

\* a request, an event, a timer or a change of the directory may begin
MayBegin == ~Responding /\ (seq => ~Busy)

\* ---------------------------------------------------- refresh_all, do_refresh
\* history: the size of the cache as the last complete with block left it
\* (the blocks of _reload and on_deleted are single steps here, so a block
\* under way is one of refresh_all or _load_samples)
Committed == IF cache_lock = "free" THEN Size(layer_cache) ELSE rf[cache_lock].held

\* history: the records of the cache that the run gen of refresh_all installed
InstalledBy(c, gen) == Cardinality({n \in DOMAIN c : c[n].gen = gen})

\* history kept when refresh_all returns
RefreshReturns(r) ==
    /\ ref' = RefReplaceAll(fs)
    /\ last' = IF last.n = 0
               THEN [n |-> 1, map |-> Styles(layer_cache), before |-> last.before]
               ELSE [last EXCEPT !.n = 2]

ReturnedPc(r) == IF r = "main" THEN "observer" ELSE "count"

\* POST /api/refresh arrives
do_refresh(r) ==
    /\ MayBegin
    /\ r \in Http
    /\ r = "http1" \/ rf["http1"].pc # "idle"
    /\ started
    /\ ~stopped
    /\ rf[r].pc = "idle"
    /\ postsLeft > 0
    /\ postsLeft' = postsLeft - 1
    /\ genCtr' = genCtr + 1
    /\ rf' = [rf EXCEPT ![r] = [RfIdle EXCEPT !.pc = "glob", !.gen = genCtr + 1]]
    /\ UNCHANGED << fs, fsLeft, stopsLeft, seq, started, stopped, layer_cache,
                    cache_lock, rd, evq, Timer, ref, last, burst, reloads, dt >>

\* shps = glob(recursive) + glob(top level)
refresh_glob(r) ==
    /\ MayGo
    /\ rf[r].pc = "glob"
    /\ rf' = [rf EXCEPT ![r].shps = GlobRecursive(fs) \o GlobTop(fs), ![r].pc = "lock"]
    /\ UNCHANGED << fs, fsLeft, postsLeft, stopsLeft, seq, started, stopped,
                    layer_cache, cache_lock, rd, evq, Timer, genCtr, ref, last,
                    burst, reloads, dt >>

\* the mutated entry of the with block: layer_cache.clear() left out
refresh_lock_no_clear(r) ==
    /\ MayGo
    /\ rf[r].pc = "lock"
    /\ cache_lock = "free"
    /\ cache_lock' = r
    /\ layer_cache' = layer_cache
    /\ rf' = [rf EXCEPT ![r].i = 0,
                        ![r].held = Size(layer_cache),
                        ![r].pc = IF Len(rf[r].shps) > 0 THEN "loader" ELSE "unlock"]
    /\ UNCHANGED << fs, fsLeft, postsLeft, stopsLeft, seq, started, stopped, rd,
                    evq, Timer, genCtr, ref, last, burst, reloads, dt >>

\* with cache_lock: layer_cache.clear(), and the loop is entered
refresh_lock(r) ==
    /\ MayGo
    /\ rf[r].pc = "lock"
    /\ cache_lock = "free"
    /\ cache_lock' = r
    /\ layer_cache' = EmptyDict
    /\ rf' = [rf EXCEPT ![r].i = 0,
                        ![r].held = Size(layer_cache),
                        ![r].pc = IF Len(rf[r].shps) > 0 THEN "loader" ELSE "unlock"]
    /\ UNCHANGED << fs, fsLeft, postsLeft, stopsLeft, seq, started, stopped, rd,
                    evq, Timer, genCtr, ref, last, burst, reloads, dt >>

\* the mutated color of a refreshed record: the palette position keeps
\* running over the runs of refresh_all instead of restarting with each
RefreshColorRunning(i) == ColorAt(i + genCtr)

\* COLORS[i % len(COLORS)]
RefreshColor(i) == ColorAt(i)

\* one turn of the loop: d = load_shp(shp), and the record is installed
refresh_load(r) ==
    /\ MayGo
    /\ rf[r].pc = "loader"
    /\ LET i == rf[r].i
           d == load_shp(fs, rf[r].shps[i + 1])
       IN  /\ layer_cache' =
                 IF d # None
                 THEN Put(layer_cache, d.name, Styled(d, RefreshColor(i), rf[r].gen))
                 ELSE layer_cache
           /\ rf' = [rf EXCEPT ![r].i = i + 1,
                               ![r].any = rf[r].any \/ d # None,
                               ![r].pc = IF i + 1 < Len(rf[r].shps)
                                         THEN "loader" ELSE "unlock"]
    /\ UNCHANGED << fs, fsLeft, postsLeft, stopsLeft, seq, started, stopped,
                    cache_lock, rd, evq, Timer, genCtr, ref, last, burst, reloads,
                    dt >>

\* the mutated end of the with block: the lock is kept, as if the fallback to
\* the samples were called inside the block
refresh_unlock_keeps_lock(r) ==
    /\ MayGo
    /\ rf[r].pc = "unlock"
    /\ rf' = [rf EXCEPT ![r].pc = "check", ![r].held = 0,
                        ![r].mine = InstalledBy(layer_cache, rf[r].gen)]
    /\ UNCHANGED << fs, fsLeft, postsLeft, stopsLeft, seq, started, stopped,
                    layer_cache, cache_lock, rd, evq, Timer, genCtr, ref, last,
                    burst, reloads, dt >>

\* the with block of refresh_all is left
refresh_unlock(r) ==
    /\ MayGo
    /\ rf[r].pc = "unlock"
    /\ cache_lock' = "free"
    /\ rf' = [rf EXCEPT ![r].pc = "check", ![r].held = 0,
                        ![r].mine = InstalledBy(layer_cache, rf[r].gen)]
    /\ UNCHANGED << fs, fsLeft, postsLeft, stopsLeft, seq, started, stopped,
                    layer_cache, rd, evq, Timer, genCtr, ref, last, burst, reloads,
                    dt >>

\* the mutated end of refresh_all: the fallback to the samples is left out
refresh_check_never_samples(r) ==
    /\ MayGo
    /\ rf[r].pc = "check"
    /\ rf' = [rf EXCEPT ![r].pc = ReturnedPc(r), ![r].shps = << >>, ![r].i = 0]
    /\ RefreshReturns(r)
    /\ UNCHANGED << fs, fsLeft, postsLeft, stopsLeft, seq, started, stopped,
                    layer_cache, cache_lock, rd, evq, Timer, genCtr, burst,
                    reloads, dt >>

\* if not layer_cache: _load_samples(), read without the lock
refresh_check(r) ==
    /\ MayGo
    /\ rf[r].pc = "check"
    /\ IF Size(layer_cache) = 0
       THEN /\ rf' = [rf EXCEPT ![r].pc = "samples_lock", ![r].shps = << >>, ![r].i = 0]
            /\ UNCHANGED << ref, last >>
       ELSE /\ rf' = [rf EXCEPT ![r].pc = ReturnedPc(r), ![r].shps = << >>, ![r].i = 0]
            /\ RefreshReturns(r)
    /\ UNCHANGED << fs, fsLeft, postsLeft, stopsLeft, seq, started, stopped,
                    layer_cache, cache_lock, rd, evq, Timer, genCtr, burst,
                    reloads, dt >>

\* _load_samples: with cache_lock
samples_lock(r) ==
    /\ MayGo
    /\ rf[r].pc = "samples_lock"
    /\ cache_lock = "free"
    /\ cache_lock' = r
    /\ rf' = [rf EXCEPT ![r].pc = "samples", ![r].i = 0,
                        ![r].held = Size(layer_cache)]
    /\ UNCHANGED << fs, fsLeft, postsLeft, stopsLeft, seq, started, stopped,
                    layer_cache, rd, evq, Timer, genCtr, ref, last, burst, reloads,
                    dt >>

\* for d in raw: layer_cache[d["name"]] = dict(...)
samples_put(r) ==
    /\ MayGo
    /\ rf[r].pc = "samples"
    /\ LET i == rf[r].i
       IN  /\ layer_cache' = Put(layer_cache, raw[i + 1].name,
                                 SampleRecord(raw[i + 1], rf[r].gen))
           /\ rf' = [rf EXCEPT ![r].i = i + 1,
                               ![r].any = TRUE,
                               ![r].pc = IF i + 1 < Len(raw)
                                         THEN "samples" ELSE "samples_unlock"]
    /\ UNCHANGED << fs, fsLeft, postsLeft, stopsLeft, seq, started, stopped,
                    cache_lock, rd, evq, Timer, genCtr, ref, last, burst, reloads,
                    dt >>

\* the with block of _load_samples is left and refresh_all returns
samples_unlock(r) ==
    /\ MayGo
    /\ rf[r].pc = "samples_unlock"
    /\ cache_lock' = "free"
    /\ rf' = [rf EXCEPT ![r].pc = ReturnedPc(r), ![r].i = 0, ![r].held = 0,
                        ![r].mine = InstalledBy(layer_cache, rf[r].gen)]
    /\ RefreshReturns(r)
    /\ UNCHANGED << fs, fsLeft, postsLeft, stopsLeft, seq, started, stopped,
                    layer_cache, rd, evq, Timer, genCtr, burst, reloads, dt >>

\* do_refresh: layers=len(layer_cache), read without the lock
refresh_count(r) ==
    /\ MayGo
    /\ rf[r].pc = "count"
    /\ rf' = [rf EXCEPT ![r].pc = "resp", ![r].n = Size(layer_cache),
                        ![r].committed = Committed]
    /\ UNCHANGED << fs, fsLeft, postsLeft, stopsLeft, seq, started, stopped,
                    layer_cache, cache_lock, rd, evq, Timer, genCtr, ref, last,
                    burst, reloads, dt >>

\* the response of POST /api/refresh is sent
refresh_resp(r) ==
    /\ rf[r].pc = "resp"
    /\ rf' = [rf EXCEPT ![r] = RfIdle]
    /\ UNCHANGED << fs, fsLeft, postsLeft, stopsLeft, seq, started, stopped,
                    layer_cache, cache_lock, rd, evq, Timer, genCtr, ref, last,
                    burst, reloads, dt >>

\* startup(): after refresh_all the observer is started; the server follows
startup_observer ==
    /\ MayGo
    /\ rf["main"].pc = "observer"
    /\ started' = TRUE
    /\ rf' = [rf EXCEPT !["main"] = [RfIdle EXCEPT !.pc = "serving"]]
    /\ UNCHANGED << fs, fsLeft, postsLeft, stopsLeft, seq, stopped, layer_cache,
                    cache_lock, rd, evq, Timer, genCtr, ref, last, burst, reloads,
                    dt >>

\* ------------------------------------------------------------ GET handlers
\* list_layers: the with block, which copies every record's summary.
\* History: a refresh that has left its first with block with nothing
\* installed, and has not returned, notes that a reader saw the cache empty.
list_layers ==
    /\ MayBegin
    /\ started
    /\ ~stopped
    /\ rd.pc = "idle"
    /\ cache_lock = "free"
    /\ rd' = [RdIdle EXCEPT !.pc = "got", !.op = "list", !.snap = layer_cache]
    /\ rf' = [r \in Refreshers |->
                IF /\ rf[r].pc \in {"check", "samples_lock"}
                   /\ ~rf[r].any
                   /\ Size(layer_cache) = 0
                THEN [rf[r] EXCEPT !.sawEmpty = TRUE]
                ELSE rf[r]]
    /\ UNCHANGED << fs, fsLeft, postsLeft, stopsLeft, seq, started, stopped,
                    layer_cache, cache_lock, evq, Timer, genCtr, ref, last, burst,
                    reloads, dt >>

\* not layer: None, or a dict without keys
Falsy(v) == v = None \/ DOMAIN v = {}

\* the mutated status: a record without a source file counts as absent
get_layer_status_needs_file(layer) ==
    IF Falsy(layer) \/ layer.file_path = NoPath THEN 404 ELSE 200

\* if not layer: return jsonify(error="Not found"), 404
get_layer_status(layer) == IF Falsy(layer) THEN 404 ELSE 200

\* get_layer: with cache_lock: layer = layer_cache.get(name), then the status
\* of the response. History: whether name was a key at that instant.
get_layer(name) ==
    /\ MayBegin
    /\ started
    /\ ~stopped
    /\ rd.pc = "idle"
    /\ cache_lock = "free"
    /\ LET layer == IF name \in DOMAIN layer_cache THEN layer_cache[name] ELSE None
       IN  rd' = [RdIdle EXCEPT !.pc = "got", !.op = "get", !.name = name,
                                !.layer = layer,
                                !.status = get_layer_status(layer),
                                !.present = name \in DOMAIN layer_cache]
    /\ UNCHANGED << fs, fsLeft, postsLeft, stopsLeft, seq, started, stopped,
                    layer_cache, cache_lock, rf, evq, Timer, genCtr, ref, last,
                    burst, reloads, dt >>

\* health: len(layer_cache), read without the lock
health ==
    /\ MayBegin
    /\ started
    /\ ~stopped
    /\ rd.pc = "idle"
    /\ rd' = [RdIdle EXCEPT !.pc = "got", !.op = "health", !.n = Size(layer_cache),
                            !.committed = Committed]
    /\ UNCHANGED << fs, fsLeft, postsLeft, stopsLeft, seq, started, stopped,
                    layer_cache, cache_lock, rf, evq, Timer, genCtr, ref, last,
                    burst, reloads, dt >>

\* the response of a GET request is sent
respond ==
    /\ rd.pc = "got"
    /\ rd' = RdIdle
    /\ UNCHANGED << fs, fsLeft, postsLeft, stopsLeft, seq, started, stopped,
                    layer_cache, cache_lock, rf, evq, Timer, genCtr, ref, last,
                    burst, reloads, dt >>

\* ------------------------------------------------- filesystem and observer
Event(kind, path) == [kind |-> kind, src_path |-> path, is_directory |-> path.is_directory]

\* history: the directory changed, the refreshes so far say nothing of it
DirChanged ==
    last' = [n |-> 0, map |-> EmptyDict,
             before |-> IF last.n > 0
                        THEN last.map = Styles(SamplesUpTo(Len(raw), 0))
                        ELSE last.before]

fs_create(p, c) ==
    /\ MayBegin
    /\ started
    /\ fsLeft > 0
    /\ ~fs[p].exists
    /\ fs' = [fs EXCEPT ![p] = c]
    /\ fsLeft' = fsLeft - 1
    /\ evq' = Append(evq, Event("created", p))
    /\ DirChanged
    /\ UNCHANGED << postsLeft, stopsLeft, seq, started, stopped, layer_cache,
                    cache_lock, rf, rd, Timer, genCtr, ref, burst, reloads, dt >>

fs_modify(p, c) ==
    /\ MayBegin
    /\ started
    /\ fsLeft > 0
    /\ fs[p].exists
    /\ c # fs[p]
    /\ fs' = [fs EXCEPT ![p] = c]
    /\ fsLeft' = fsLeft - 1
    /\ evq' = Append(evq, Event("modified", p))
    /\ DirChanged
    /\ UNCHANGED << postsLeft, stopsLeft, seq, started, stopped, layer_cache,
                    cache_lock, rf, rd, Timer, genCtr, ref, burst, reloads, dt >>

fs_delete(p) ==
    /\ MayBegin
    /\ started
    /\ fsLeft > 0
    /\ fs[p].exists
    /\ fs' = [fs EXCEPT ![p] = Absent]
    /\ fsLeft' = fsLeft - 1
    /\ evq' = Append(evq, Event("deleted", p))
    /\ DirChanged
    /\ UNCHANGED << postsLeft, stopsLeft, seq, started, stopped, layer_cache,
                    cache_lock, rf, rd, Timer, genCtr, ref, burst, reloads, dt >>

\* what the observer is told of a change that is none of a source file: one
\* event about the subdirectory itself or about a file that is no source
\* file; a directory named like a source file is made, changed and removed
\* again in one go, so that no enumeration of refresh_all comes upon it
Notifications(kind, p) ==
    IF p = D_shp
    THEN << Event("created", p), Event("modified", p), Event("deleted", p) >>
    ELSE << Event(kind, p) >>

other_event(kind, p) ==
    /\ MayBegin
    /\ started
    /\ fsLeft > 0
    /\ p = D_shp => kind = "created"
    /\ ~(p = D_shp /\ fs[P_plot].exists)
    /\ fsLeft' = fsLeft - 1
    /\ evq' = evq \o Notifications(kind, p)
    /\ UNCHANGED << fs, postsLeft, stopsLeft, seq, started, stopped, layer_cache,
                    cache_lock, rf, rd, Timer, genCtr, ref, last, burst, reloads,
                    dt >>

\* ------------------------------------------------------- debounce timers
RemoveAt(s, i) == SubSeq(s, 1, i - 1) \o SubSeq(s, i + 1, Len(s))

\* the mutated lookup: the timer is looked up under a key it was not stored
\* under, and is never found
self_timers_missed(path) == 0

\* self._timers.get(path): the place in Timer of the timer stored for path,
\* 0 when there is none
self_timers(path) ==
    IF \E i \in 1..Len(Timer) : Timer[i].path = path /\ Timer[i].cur
    THEN CHOOSE i \in 1..Len(Timer) : Timer[i].path = path /\ Timer[i].cur
    ELSE 0

\* threading.Timer(delay, self._reload, [path]), started
NewTimer(path) ==
    [path |-> path, cur |-> TRUE, st |-> "waiting", rem |-> DebounceDelay,
     age |-> 0, d |-> None]

\* history of _debounce: the events of the path so far, as long as each came
\* while the timer of the one before still had to wait; -1 from then on
BurstAfter(path) ==
    LET t == self_timers(path)
    IN  IF t = 0 /\ burst[path] = 0 THEN 1
        ELSE IF t # 0 /\ burst[path] > 0 /\ Timer[t].st = "waiting" /\ Timer[t].rem > 0
             THEN burst[path] + 1
             ELSE -1

\* the mutated _debounce: the timer armed before is not cancelled
debounce_no_cancel(path) ==
    IF EndsWithShp(path)
    THEN LET t   == self_timers(path)
             old == IF t = 0 THEN Timer
                    ELSE IF Timer[t].st \in {"waiting", "loaded"}
                         THEN [Timer EXCEPT ![t].cur = FALSE]
                         ELSE RemoveAt(Timer, t)
         IN  /\ Timer' = Append(old, NewTimer(path))
             /\ burst' = [burst EXCEPT ![path] = BurstAfter(path)]
             /\ reloads' = [reloads EXCEPT ![path] = IF BurstAfter(path) > 0 THEN @ ELSE 0]
    ELSE UNCHANGED << Timer, burst, reloads >>

\* _debounce without the test of the extension
debounce_any_file(path) ==
    LET t   == self_timers(path)
        old == IF t = 0 THEN Timer
               ELSE IF Timer[t].st = "loaded"
                    THEN [Timer EXCEPT ![t].cur = FALSE]
                    ELSE RemoveAt(Timer, t)
    IN  /\ Timer' = Append(old, NewTimer(path))
        /\ UNCHANGED << burst, reloads >>

\* _debounce(path): t.cancel() ends a timer that still waits and does
\* nothing to one that runs (it goes on, no longer stored) or has ended;
\* the new timer is stored in its place and started
debounce(path) ==
    IF EndsWithShp(path)
    THEN LET t   == self_timers(path)
             old == IF t = 0 THEN Timer
                    ELSE IF Timer[t].st = "loaded"
                         THEN [Timer EXCEPT ![t].cur = FALSE]
                         ELSE RemoveAt(Timer, t)
         IN  /\ Timer' = Append(old, NewTimer(path))
             /\ burst' = [burst EXCEPT ![path] = BurstAfter(path)]
             /\ reloads' = [reloads EXCEPT ![path] = IF BurstAfter(path) > 0 THEN @ ELSE 0]
    ELSE UNCHANGED << Timer, burst, reloads >>

on_created ==
    /\ MayBegin
    /\ evq # << >>
    /\ Head(evq).kind = "created"
    /\ evq' = Tail(evq)
    /\ IF ~Head(evq).is_directory
       THEN debounce(Head(evq).src_path)
       ELSE UNCHANGED << Timer, burst, reloads >>
    /\ UNCHANGED << fs, fsLeft, postsLeft, stopsLeft, seq, started, stopped,
                    layer_cache, cache_lock, rf, rd, genCtr, ref, last, dt >>

on_modified ==
    /\ MayBegin
    /\ evq # << >>
    /\ Head(evq).kind = "modified"
    /\ evq' = Tail(evq)
    /\ IF ~Head(evq).is_directory
       THEN debounce(Head(evq).src_path)
       ELSE UNCHANGED << Timer, burst, reloads >>
    /\ UNCHANGED << fs, fsLeft, postsLeft, stopsLeft, seq, started, stopped,
                    layer_cache, cache_lock, rf, rd, genCtr, ref, last, dt >>

\* the mutated on_deleted: the deletion waits for the debounce timer, whose
\* reload then finds no file
on_deleted_debounced ==
    /\ MayBegin
    /\ evq # << >>
    /\ Head(evq).kind = "deleted"
    /\ evq' = Tail(evq)
    /\ IF ~Head(evq).is_directory
       THEN debounce(Head(evq).src_path)
       ELSE UNCHANGED << Timer, burst, reloads >>
    /\ UNCHANGED << layer_cache, ref >>
    /\ UNCHANGED << fs, fsLeft, postsLeft, stopsLeft, seq, started, stopped,
                    cache_lock, rf, rd, genCtr, last, dt >>

\* on_deleted: for a source file, with cache_lock: layer_cache.pop(stem, None)
on_deleted ==
    /\ MayBegin
    /\ evq # << >>
    /\ Head(evq).kind = "deleted"
    /\ LET e == Head(evq)
       IN  IF ~e.is_directory /\ EndsWithShp(e.src_path)
           THEN /\ cache_lock = "free"
                /\ layer_cache' = Pop(layer_cache, Stem(e.src_path))
                /\ ref' = Pop(ref, Stem(e.src_path))
           ELSE UNCHANGED << layer_cache, ref >>
    /\ evq' = Tail(evq)
    /\ UNCHANGED << Timer, burst, reloads >>
    /\ UNCHANGED << fs, fsLeft, postsLeft, stopsLeft, seq, started, stopped,
                    cache_lock, rf, rd, genCtr, last, dt >>

\* time passes: every waiting timer has one tick less to wait
Tick ==
    /\ MayBegin
    /\ \E t \in 1..Len(Timer) : Timer[t].st = "waiting" /\ Timer[t].rem > 0
    /\ Timer' = [t \in 1..Len(Timer) |->
                   IF Timer[t].st = "waiting" /\ Timer[t].rem > 0
                   THEN [Timer[t] EXCEPT !.rem = Timer[t].rem - 1,
                                         !.age = Timer[t].age + 1]
                   ELSE Timer[t]]
    /\ UNCHANGED << fs, fsLeft, postsLeft, stopsLeft, seq, started, stopped,
                    layer_cache, cache_lock, rf, rd, evq, genCtr, ref, last, burst,
                    reloads, dt >>

\* Timer.run, its wait over and not cancelled: _reload(path) up to and with
\* d = load_shp(path)
timer_run(t) ==
    /\ MayBegin
    /\ t \in DOMAIN Timer
    /\ Timer[t].st = "waiting"
    /\ Timer[t].rem = 0
    /\ Timer' = [Timer EXCEPT ![t].st = "loaded", ![t].d = load_shp(fs, Timer[t].path)]
    /\ reloads' = [reloads EXCEPT ![Timer[t].path] =
                     IF burst[Timer[t].path] > 0 THEN @ + 1 ELSE 0]
    /\ UNCHANGED << fs, fsLeft, postsLeft, stopsLeft, seq, started, stopped,
                    layer_cache, cache_lock, rf, rd, evq, genCtr, ref, last, burst,
                    dt >>

\* the mutated _reload: the record is stored first and the color is taken
\* from the size of the cache after that
reload_color_after_insert(t) ==
    /\ MayGo
    /\ t \in DOMAIN Timer
    /\ Timer[t].st = "loaded"
    /\ cache_lock = "free"
    /\ LET name == Stem(Timer[t].path)
           d    == Timer[t].d
       IN  /\ layer_cache' =
                 IF d # None
                 THEN Put(layer_cache, name,
                          Styled(d, ColorAt(Size(Put(layer_cache, name, d))), 0))
                 ELSE Pop(layer_cache, name)
           /\ ref' =
                 IF d # None
                 THEN Put(ref, name, Styled(d, ColorAt(Size(ref)), 0))
                 ELSE Pop(ref, name)
    /\ Timer' = IF Timer[t].cur
                THEN [Timer EXCEPT ![t].st = "done", ![t].d = None]
                ELSE RemoveAt(Timer, t)
    /\ UNCHANGED << fs, fsLeft, postsLeft, stopsLeft, seq, started, stopped,
                    cache_lock, rf, rd, evq, genCtr, last, burst, reloads, dt >>

\* _reload(path): the with block, after which the timer has ended
reload(t) ==
    /\ MayGo
    /\ t \in DOMAIN Timer
    /\ Timer[t].st = "loaded"
    /\ cache_lock = "free"
    /\ LET name == Stem(Timer[t].path)
           d    == Timer[t].d
       IN  /\ layer_cache' =
                 IF d # None
                 THEN Put(layer_cache, name, Styled(d, ColorAt(Size(layer_cache)), 0))
                 ELSE Pop(layer_cache, name)
           /\ ref' =
                 IF d # None
                 THEN Put(ref, name, Styled(d, ColorAt(Size(ref)), 0))
                 ELSE Pop(ref, name)
    /\ Timer' = IF Timer[t].cur
                THEN [Timer EXCEPT ![t].st = "done", ![t].d = None]
                ELSE RemoveAt(Timer, t)
    /\ UNCHANGED << fs, fsLeft, postsLeft, stopsLeft, seq, started, stopped,
                    cache_lock, rf, rd, evq, genCtr, last, burst, reloads, dt >>

\* ------------------------------------------------------------- shutdown
\* app.run returns (the server is interrupted) and the main thread ends: no
\* request is accepted any more. Nothing stops the observer that startup()
\* left running or cancels a timer of SHPHandler._timers: their threads go on
\* until the interpreter is torn down.
shutdown ==
    /\ MayBegin
    /\ started
    /\ ~stopped
    /\ stopsLeft > 0
    /\ stopsLeft' = stopsLeft - 1
    /\ stopped' = TRUE
    /\ UNCHANGED << fs, fsLeft, postsLeft, seq, started, layer_cache, cache_lock,
                    rf, rd, evq, Timer, genCtr, ref, last, burst, reloads, dt >>

\* ------------------------------------------------------- specifications
\* every event of the watcher comes from one change of the directory, and one
\* event starts at most one timer
MaxTimers ==
    CHOOSE n \in {WatchFsOps, RaceFsOps, StopFsOps, LiveFsOps} :
        \A k \in {WatchFsOps, RaceFsOps, StopFsOps, LiveFsOps} : k <= n

Next ==
    \/ \E r \in Refreshers : do_refresh(r)
    \/ \E r \in Refreshers : refresh_glob(r)
    \/ \E r \in Refreshers : refresh_lock(r)
    \/ \E r \in Refreshers : refresh_load(r)
    \/ \E r \in Refreshers : refresh_unlock(r)
    \/ \E r \in Refreshers : refresh_check(r)
    \/ \E r \in Refreshers : samples_lock(r)
    \/ \E r \in Refreshers : samples_put(r)
    \/ \E r \in Refreshers : samples_unlock(r)
    \/ \E r \in Refreshers : refresh_count(r)
    \/ \E r \in Refreshers : refresh_resp(r)
    \/ startup_observer
    \/ shutdown
    \/ list_layers
    \/ \E name \in GetNames : get_layer(name)
    \/ health
    \/ respond
    \/ \E p \in ShpPaths : \E c \in ContentsOf(p) : fs_create(p, c)
    \/ \E p \in ShpPaths : \E c \in ContentsOf(p) : fs_modify(p, c)
    \/ \E p \in ShpPaths : fs_delete(p)
    \/ \E kind \in {"created", "modified", "deleted"}, p \in OtherPaths : other_event(kind, p)
    \/ on_created
    \/ on_modified
    \/ on_deleted
    \/ Tick
    \/ \E t \in 1..MaxTimers : timer_run(t)
    \/ \E t \in 1..MaxTimers : reload(t)

\* the contexts interleave step by step
Spec == Init /\ [][Next]_vars

\* one context at a time: nothing begins while another is under way
SeqSpec == SeqInit /\ [][Next]_vars

\* the program under a scheduler that lets no thread wait for ever: the
\* request threads of Flask, the observer's dispatching thread and the timer
\* threads each take their next step in the end, and time passes. A thread
\* that is ready stays ready in the program; here its step is held back while
\* a response is being sent, so the fairness is the strong one
LiveDirs == { Dir(Absent, Absent, Absent), Dir(PointsFile, LinesFile, Absent) }

\* a change of the directory beside one POST /api/refresh, or POSTs alone
LiveProfiles == { <<LiveFsOps, 1, 1>>, <<0, LivePosts, 1>> }

LiveInit ==
    /\ fs \in LiveDirs
    /\ \E pr \in LiveProfiles : fsLeft = pr[1] /\ postsLeft = pr[2] /\ stopsLeft = pr[3]
    /\ seq = FALSE
    /\ RestInit
    /\ dt = DtIdle

\* the next step of refresher r, wherever it is in refresh_all
Continue(r) ==
    \/ refresh_glob(r)
    \/ refresh_lock(r)
    \/ refresh_load(r)
    \/ refresh_unlock(r)
    \/ refresh_check(r)
    \/ samples_lock(r)
    \/ samples_put(r)
    \/ samples_unlock(r)
    \/ refresh_count(r)
    \/ refresh_resp(r)

\* the observer's thread handles the event at the head of its queue
Dispatch == on_created \/ on_modified \/ on_deleted

Fairness ==
    /\ \A r \in Refreshers : SF_vars(Continue(r))
    /\ SF_vars(startup_observer)
    /\ SF_vars(respond)
    /\ SF_vars(Dispatch)
    /\ SF_vars(Tick)
    /\ \A t \in 1..MaxTimers : SF_vars(timer_run(t) \/ reload(t))

LiveSpec == LiveInit /\ [][Next]_vars /\ Fairness

\* ------------------------------------------------- detect_type on its own
\* pieces of layer names: keywords of the table, in either case, and fillers
Pieces ==
    { <<"r","o","a","d">>, <<"b","l","o","c","k">>, <<"W","a","t","e","r">>,
      <<"s","e","a">>, <<"c","h","a","m","b","e","r">>, <<"s">>, <<"_">>,
      <<"p","l","o","t">>, <<"B","U","I","L","D","I","N","G">>, <<"w","e","l","l">> }

RECURSIVE NamesOf(_)
NamesOf(k) ==
    IF k = 0 THEN { << >> }
    ELSE NamesOf(k - 1) \cup {n \o p : n \in NamesOf(k - 1), p \in Pieces}

DetectNames == NamesOf(MaxPieces)

DetectGdfs ==
    { NoGdf, Gdf(<< >>), Gdf(<<"Point">>), Gdf(<<"LineString", "Point">>),
      Gdf(<<"MultiPolygon">>), Gdf(<<"GeometryCollection">>) }

DetectInit ==
    /\ fs = Dir(Absent, Absent, Absent)
    /\ fsLeft = 0
    /\ postsLeft = 0
    /\ stopsLeft = 0
    /\ seq = TRUE
    /\ RestInit
    /\ dt \in [name : DetectNames, gdf : DetectGdfs, out : {""}]

\* load_shp's call detect_type(name, gdf)
detect_apply ==
    /\ dt.out = ""
    /\ dt' = [dt EXCEPT !.out = detect_type(dt.name, dt.gdf)]
    /\ UNCHANGED << fs, fsLeft, postsLeft, stopsLeft, seq, started, stopped,
                    layer_cache, cache_lock, rf, rd, evq, Timer, genCtr, ref, last,
                    burst, reloads >>

DetectNext == detect_apply

SpecDetect == DetectInit /\ [][DetectNext]_vars

\* ------------------------------------------------------------- properties
\* refresh_all has returned to its caller, which has not gone on yet
Returned(r) == rf[r].pc \in {"count", "observer"}

\* a record as a reader can tell it from another
Entry(v) ==
    [name |-> v.name, type |-> v.type, count |-> v.count, style |-> v.style,
     geojson |-> v.geojson, file_path |-> v.file_path]

Entries(c) == {Entry(c[n]) : n \in DOMAIN c}

\* C1: run one after another, the mutations of the cache (a full refresh
\* replaces everything, a reload that loads upserts, a reload that fails and
\* a delete event remove) leave list_layers exactly the entries of the
\* reference map they were applied to in call order, one entry per name.
C1_ListingMatchesReference ==
    (rd.pc = "got" /\ rd.op = "list") =>
        /\ Listing(rd.snap) = Listing(ref)
        /\ Entries(rd.snap) = Entries(ref)
        /\ Cardinality(Listing(rd.snap)) = Cardinality({x.name : x \in Listing(rd.snap)})

\* a listing after both budgets are spent: the startup refresh, a reload
\* that has ended, and the last POST refresh have all been applied
C1_Witness ==
    /\ rd.pc = "got"
    /\ rd.op = "list"
    /\ fsLeft = 0
    /\ postsLeft = 0
    /\ evq = << >>
    /\ \E t \in 1..Len(Timer) : Timer[t].st = "done"
    /\ Size(rd.snap) >= 2

\* C2: no listing holds records installed by two different runs of
\* refresh_all (records the watcher installed aside).
C2_NoMixedGenerations ==
    (rd.pc = "got" /\ rd.op = "list") =>
        \A a, b \in DOMAIN rd.snap :
            (rd.snap[a].gen # 0 /\ rd.snap[b].gen # 0) => rd.snap[a].gen = rd.snap[b].gen

\* C3: a refresh during which a reader saw the cache empty, after the
\* refresh had cleared it and before it installed anything, installs
\* nothing: the set it leaves is itself empty.
C3_NoTransientEmpty ==
    \A r \in Refreshers : (Returned(r) /\ rf[r].sawEmpty) => ~rf[r].any

\* C4: no context is inside load_shp while it holds cache_lock.
C4_NoLoadUnderLock ==
    \A r \in Refreshers : rf[r].pc = "loader" => cache_lock # r

\* C5: a refresh_all that follows another with no change of the directory
\* in between leaves the same names with the same styles.
C5_RefreshIdempotent ==
    \A r \in Refreshers :
        (Returned(r) /\ last.n = 2) => Styles(layer_cache) = last.map

\* the second refresh of a directory whose top-level file is found by both
\* patterns and shares its name with a file of the subdirectory
C5_Witness ==
    /\ \E r \in Http : Returned(r)
    /\ last.n = 2
    /\ fs[P_top].ok
    /\ fs[P_sub].exists

\* C6: while every event of a path came before the timer of the one before
\* had waited out the delay, _reload ran for the path at most once; it ran
\* exactly once when the timer of the last event no longer waits, that timer
\* is the one that ran, and it had waited the whole delay.
C6_DebounceCoalesces ==
    \A p \in ShpPaths :
        burst[p] > 0 =>
            LET t == self_timers(p)
            IN  /\ t # 0
                /\ \A i \in 1..Len(Timer) : Timer[i].path = p => i = t
                /\ reloads[p] = IF Timer[t].st = "waiting" THEN 0 ELSE 1
                /\ Timer[t].st # "waiting" => Timer[t].age = DebounceDelay

\* two events in a burst, and the one reload has ended
C6_Witness ==
    \E p \in ShpPaths :
        /\ burst[p] = 2
        /\ reloads[p] = 1
        /\ Timer[self_timers(p)].st = "done"

\* C7: the step that handles a delete event of a source file removes the
\* entry of its stem and nothing else, arms no timer and runs no reload.
C7_DeleteImmediate ==
    [][ ( /\ evq # << >>
          /\ Head(evq).kind = "deleted"
          /\ ~Head(evq).is_directory
          /\ EndsWithShp(Head(evq).src_path)
          /\ Len(evq') = Len(evq) - 1 )
        => ( /\ Stem(Head(evq).src_path) \notin DOMAIN layer_cache'
             /\ DOMAIN layer_cache' = DOMAIN layer_cache \ {Stem(Head(evq).src_path)}
             /\ \A n \in DOMAIN layer_cache' : layer_cache'[n] = layer_cache[n]
             /\ Timer' = Timer
             /\ reloads' = reloads ) ]_vars

\* the file plot was deleted from the directory of the startup, no refresh
\* and no timer since: its entry is gone, the other one is still there
C7_Witness ==
    /\ ~fs[P_plot].exists
    /\ genCtr = 1
    /\ Timer = << >>
    /\ evq = << >>
    /\ DOMAIN layer_cache = {"roads"}
    /\ layer_cache["roads"].file_path = P_sub

NoShp(f) == \A p \in ShpPaths : ~f[p].exists

OnlyLoadable(f, p) == f[p].exists /\ f[p].ok /\ \A q \in ShpPaths \ {p} : ~f[q].exists

C8_Names ==
    { "administrative_boundaries", "buildings", "land_use", "road_network",
      "water_supply", "sewerage_network", "chambers", "utilities" }

\* C8: refresh_all on a directory without source files leaves exactly the
\* eight samples, none with a file_path; on a directory with one loadable
\* source file it leaves exactly that layer.
C8_SampleFallback ==
    \A r \in Refreshers :
        Returned(r) =>
            /\ NoShp(fs) =>
                  /\ DOMAIN layer_cache = C8_Names
                  /\ Size(layer_cache) = 8
                  /\ \A n \in DOMAIN layer_cache : layer_cache[n].file_path = NoPath
            /\ \A p \in ShpPaths :
                  OnlyLoadable(fs, p) =>
                      /\ DOMAIN layer_cache = {Stem(p)}
                      /\ layer_cache[Stem(p)].file_path = p

\* the startup found no source file and left the samples; the one file plot
\* was created, and the first POST refresh has returned
C8_Witness ==
    /\ \E r \in Http : Returned(r)
    /\ genCtr = 2
    /\ last.before
    /\ OnlyLoadable(fs, P_plot)
    /\ \/ fsLeft = WatchFsOps - 1 /\ postsLeft = WatchPosts - 1
       \/ fsLeft = RaceFsOps - 1 /\ postsLeft = RacePosts - 1
    /\ DOMAIN layer_cache = {"plot"}

\* C9: get_layer answers 404 exactly when the name was no key of the cache
\* at its lookup, and otherwise returns the record of that name.
C9_NotFoundIffAbsent ==
    (rd.pc = "got" /\ rd.op = "get") =>
        /\ rd.status \in {200, 404}
        /\ (rd.status = 404) <=> ~rd.present
        /\ rd.present => rd.layer.name = rd.name

\* a sample layer is found while a POST refresh waits for the lock
C9_Witness ==
    /\ rd.pc = "got"
    /\ rd.op = "get"
    /\ rd.present
    /\ rd.layer.file_path = NoPath
    /\ rd.status = 200
    /\ \E r \in Http : rf[r].pc = "lock"

\* the places of the table whose keyword occurs in the lower-cased name
Matches(name) ==
    {i \in 1..Len(NAME_TYPE) : Contains(NAME_TYPE[i][1], Lower(name))}

Least(S) == CHOOSE i \in S : \A j \in S : i <= j

\* C10: detect_type gives the kind of the first keyword, in table order,
\* that occurs in the lower-cased name, whatever the geometry; without such
\* a keyword the kind of the first feature's geometry type (polygon for a
\* type that is not in GEOM_MAP); without keyword and features, polygon.
C10_KeywordPrecedence ==
    dt.out # "" =>
        IF Matches(dt.name) # {}
        THEN dt.out = NAME_TYPE[Least(Matches(dt.name))][2]
        ELSE IF ~dt.gdf.isNone /\ Len(dt.gdf.geom_type) > 0
             THEN dt.out = ( IF dt.gdf.geom_type[1] \in {"Point", "MultiPoint"}
                             THEN "point"
                             ELSE IF dt.gdf.geom_type[1] \in {"LineString", "MultiLineString"}
                                  THEN "polyline"
                                  ELSE "polygon" )
             ELSE dt.out = "polygon"

\* roadblock holding lines: block (polygon) precedes road (polyline) in the
\* table, and the geometry would say polyline
C10_Witness ==
    /\ dt.name = <<"r","o","a","d","b","l","o","c","k">>
    /\ dt.gdf = Gdf(<<"LineString", "Point">>)
    /\ dt.out = "polygon"

\* a debounce timer that is armed or whose _reload is under way
Outstanding(t) == Timer[t].st \in {"waiting", "loaded"}

\* C11: once the program has shut down, no debounce timer is outstanding,
\* no _reload runs and the watcher changes the cache no more.
C11_WatcherStoppable ==
    [][ stopped =>
          /\ \A t \in DOMAIN Timer : ~Outstanding(t)
          /\ layer_cache' = layer_cache
          /\ reloads' = reloads ]_vars

\* C12: the count that GET /api/health and POST /api/refresh return is the
\* size the cache had when the last complete with block left it, and the
\* count of POST /api/refresh is the number of layers its own run of
\* refresh_all installed.
C12_CountIsCommitted ==
    /\ (rd.pc = "got" /\ rd.op = "health") => rd.n = rd.committed
    /\ \A r \in Http :
          rf[r].pc = "resp" => (rf[r].n = rf[r].committed /\ rf[r].n = rf[r].mine)

\* the timers of a path that are started, not cancelled and have not fired
Armed(p) == {t \in DOMAIN Timer : Timer[t].path = p /\ Timer[t].st = "waiting"}

\* C13: a path has at most one armed timer, and it is the one _timers
\* stores for the path: a timer that was replaced while it waited is gone,
\* so no timer that was cancelled in time goes on to _reload.
C13_OneArmedTimer ==
    \A p \in ShpPaths :
        /\ Cardinality(Armed(p)) <= 1
        /\ \A t \in Armed(p) : Timer[t].cur

\* an event of a path came after the timer of the one before had fired and
\* before its _reload ended: the new timer is the one armed timer, next to
\* the old one, which is past its wait and no longer stored
C13_Witness ==
    \E p \in ShpPaths :
        /\ Cardinality(Armed(p)) = 1
        /\ \E t \in DOMAIN Timer :
              Timer[t].path = p /\ Timer[t].st = "loaded" /\ ~Timer[t].cur
        /\ Cardinality({t \in DOMAIN Timer : Timer[t].path = p}) = 2

HasSample(c) == \E n \in DOMAIN c : c[n].file_path = NoPath

NoneLoadable(f) == \A p \in ShpPaths : ~(f[p].exists /\ f[p].ok)

\* C14: refresh_all leaves sample layers exactly when the directory holds
\* no source file; when it holds source files and none of them loads, the
\* cache is left empty.
C14_SamplesIffNoFiles ==
    \A r \in Refreshers :
        Returned(r) =>
            /\ HasSample(layer_cache) <=> NoShp(fs)
            /\ (~NoShp(fs) /\ NoneLoadable(fs)) => layer_cache = EmptyDict

\* the timers that are in _reload, past load_shp and before the with block
InReload == {t \in DOMAIN Timer : Timer[t].st = "loaded"}

\* what the with block of _reload is to do for timer t
ReloadEffect(t) ==
    LET name == Stem(Timer[t].path)
        d    == Timer[t].d
    IN  /\ d # None =>
              /\ DOMAIN layer_cache' = DOMAIN layer_cache \cup {name}
              /\ layer_cache'[name].name = d.name
              /\ layer_cache'[name].type = d.type
              /\ layer_cache'[name].geojson = d.geojson
              /\ layer_cache'[name].count = d.count
              /\ layer_cache'[name].file_path = Timer[t].path
              /\ layer_cache'[name].style =
                    make_style(d.type, COLORS[(Size(layer_cache) % Len(COLORS)) + 1])
        /\ d = None => DOMAIN layer_cache' = DOMAIN layer_cache \ {name}
        /\ \A n \in DOMAIN layer_cache' \ {name} :
              n \in DOMAIN layer_cache /\ layer_cache'[n] = layer_cache[n]

\* C15: the step in which a _reload ends stores the loaded record under the
\* stem of its path, whole, with the color at the place (size of the cache
\* at that moment) of the palette; after a failed load it removes the entry
\* of the stem; every other entry stays as it was.
C15_ReloadUpsertsOrRemoves ==
    [][ Cardinality(InReload') < Cardinality(InReload)
          => \E t \in InReload : ReloadEffect(t) ]_vars

\* next to a layer of the startup, the watcher has stored a second one with
\* the palette's color of place 1
C15_Witness ==
    /\ Size(layer_cache) = 2
    /\ \E n \in DOMAIN layer_cache :
          /\ layer_cache[n].gen = 0
          /\ layer_cache[n].style.color = COLORS[2]
    /\ \E n \in DOMAIN layer_cache : layer_cache[n].gen = 1

\* the place of path p among the distinct source files of directory f, in
\* the order of their discovery, counted from 0
PlaceOf(f, p) ==
    LET found == GlobRecursive(f)
    IN  (CHOOSE k \in 1..Len(found) : found[k] = p) - 1

\* C16: in one run of refresh_all no path is handed to load_shp a second
\* time, and the color of every loaded record is the palette's color at the
\* place of its path among the distinct discovered paths.
C16_LoadedOncePerRefresh ==
    \A r \in Refreshers :
        /\ rf[r].pc = "loader" =>
              \A j \in 1..rf[r].i : rf[r].shps[j] # rf[r].shps[rf[r].i + 1]
        /\ Returned(r) =>
              \A n \in DOMAIN layer_cache :
                  layer_cache[n].file_path # NoPath =>
                      layer_cache[n].style.color =
                          COLORS[(PlaceOf(fs, layer_cache[n].file_path) % Len(COLORS)) + 1]

\* an event the handlers are to pass over: about a directory, or about a
\* path that does not end in .shp
Ignored(e) == e.is_directory \/ ~EndsWithShp(e.src_path)

\* C17: the handling of a created, modified or deleted event about a
\* directory or about a path without the extension .shp changes neither the
\* cache nor the timers.
C17_IgnoredEventsChangeNothing ==
    [][ (evq # << >> /\ evq' = Tail(evq) /\ Ignored(Head(evq)))
          => (layer_cache' = layer_cache /\ Timer' = Timer) ]_vars

\* the created and the modified event about a directory named like a source
\* file have been handled, and no timer is there
C17_Witness ==
    /\ evq = << Event("deleted", D_shp) >>
    /\ Timer = << >>
    /\ Size(layer_cache) > 0

\* the file at p is gone and the observer has handled every event about it:
\* the last event handled for p is its deletion
Gone(p) == ~fs[p].exists /\ \A i \in 1..Len(evq) : evq[i].src_path # p

\* no entry of the cache was loaded from p
NoEntryFrom(c, p) == \A n \in DOMAIN c : c[n].file_path # p

\* no call of refresh_all is under way
NoRefresh == \A r \in Refreshers : rf[r].pc \in {"idle", "serving"}

\* C18: once the deletion of p has been handled, and with no later event
\* about p and no refresh, a record loaded from p never comes back into the
\* cache.
C18_DeletedStaysOut ==
    [][ \A p \in ShpPaths :
          (Gone(p) /\ Gone(p)' /\ NoRefresh /\ NoRefresh' /\ NoEntryFrom(layer_cache, p))
            => NoEntryFrom(layer_cache', p) ]_vars

\* C19: the handling of a delete event about p, and a _reload of p whose
\* load failed, take out of the cache no entry but one that was loaded from
\* p: the record of another file with the same base name stays.
C19_RemovesOnlyOwnEntry ==
    [][ \A n \in DOMAIN layer_cache :
          n \notin DOMAIN layer_cache' =>
            /\ (evq # << >> /\ evq' = Tail(evq) /\ Head(evq).kind = "deleted")
                  => layer_cache[n].file_path = Head(evq).src_path
            /\ Cardinality(InReload') < Cardinality(InReload)
                  => \E t \in InReload :
                        /\ Timer[t].d = None
                        /\ layer_cache[n].file_path = Timer[t].path ]_vars

\* refresher r is inside refresh_all or do_refresh
Pending(r) == rf[r].pc \notin {"idle", "serving"}

\* refresher r is about to take cache_lock
Acquiring(r) == rf[r].pc \in {"lock", "samples_lock"}

\* the lock is free and no refresh, event, _reload or read is under way
Quiet ==
    /\ cache_lock = "free"
    /\ \A r \in Refreshers : ~Pending(r)
    /\ evq = << >>
    /\ InReload = {}
    /\ rd.pc = "idle"

\* C20: no context takes cache_lock while it holds it, and whenever the
\* lock is held or a refresh, an event of the watcher, a _reload or a read
\* is under way, the holder lets go of the lock and all of them come to
\* their end.
C20_NoDeadlock ==
    /\ [](\A r \in Refreshers : Acquiring(r) => cache_lock # r)
    /\ (~Quiet) ~> Quiet

\* a refresher waits for the lock that another refresher holds
C20_Witness ==
    \E r \in Refreshers :
        /\ Acquiring(r)
        /\ cache_lock \notin {"free", r}
====
